---- MODULE Spec2Model ----
(***************************************************************************)
(* InstanceManager (src/InstanceManager.py): a manager object that creates *)
(* EC2 instances, keeps one SSH client per instance, and terminates the    *)
(* instances and deletes its security group when the process exits.        *)
(*                                                                         *)
(* The cloud provider (boto3) and the SSH transport (paramiko) are the     *)
(* environment: the provider's instance states and security groups are     *)
(* state of the model; the outcome of a connection attempt and the         *)
(* provider fault that makes a call raise are inputs of the actions.       *)
(***************************************************************************)
EXTENDS Integers, Sequences, FiniteSets, TLC

\* ------------------------------------------------------------------ bounds
MaxInstances == 2      \* instances the provider hands out in one behaviour
MaxClients == 2        \* SSH clients that connect successfully in one behaviour
MaxGroups == 2         \* security groups the provider hands out in one behaviour
MaxAttempts == 2       \* largest max_attempts passed to connect_to_instances
MaxSubsetLen == 2      \* longest instance list passed as the instances parameter

Ids == 1..MaxInstances

\* Python's None for a list-valued attribute or parameter: <<>> is None and
\* <<l>> is the list l (so that None and the empty list [] stay different).
None == <<>>
Some(l) == <<l>>
IsNone(x) == x = <<>>
Val(x) == x[1]

\* time.sleep(10) between two connection attempts.
RetryDelay == 10

Range(s) == {s[k] : k \in 1..Len(s)}

\* ------------------------------------------------------------------ state
VARIABLES
  instances,               \* self.instances: list of instance ids
  ssh_clients,             \* self.ssh_clients: id -> client handle, 0 = no such key
  clients,                 \* clients[h]: the instance client h connected to, and
                           \* whether it is open, for every client that connected
  security_group_ids,      \* self.security_group_ids: None or a list of group ids
  security_group_created,  \* self.security_group_created
  instance_num,            \* self.instance_num
  state,                   \* provider: lifecycle state of each instance id
  groups,                  \* provider: the security groups that exist
  named,                   \* provider: id of the group named IMPAQ_HPC_TM, 0 = none
  groupCount,              \* provider: number of group ids handed out
  created,                 \* the groups ec2.create_security_group made for this manager
  lastOp,                  \* the operation that just ran and how it ended
  pc,                      \* where the calling program is
  conn                     \* the loop variables of connect_to_instances

vars == <<instances, ssh_clients, clients, security_group_ids,
          security_group_created, instance_num, state, groups, named,
          groupCount, created, lastOp, pc, conn>>

\* The manager's attributes and the provider's state.
progVars == <<instances, ssh_clients, clients, security_group_ids,
              security_group_created, instance_num>>
provVars == <<state, groups, named, groupCount>>

\* The state an operation works on, as one record. err is the exception that
\* ended the operation ("none" while it runs normally); done is the set of
\* instances on which it completed its remote work (command, transfer, load);
\* how is the branch create_security_group took ("created", "adopted").
Cur ==
  [instances |-> instances, ssh_clients |-> ssh_clients, clients |-> clients,
   security_group_ids |-> security_group_ids,
   security_group_created |-> security_group_created,
   instance_num |-> instance_num, state |-> state, groups |-> groups,
   named |-> named, groupCount |-> groupCount, created |-> created,
   done |-> {}, how |-> "",
   err |-> "none"]

Commit(w) ==
  /\ instances' = w.instances
  /\ ssh_clients' = w.ssh_clients
  /\ clients' = w.clients
  /\ security_group_ids' = w.security_group_ids
  /\ security_group_created' = w.security_group_created
  /\ instance_num' = w.instance_num
  /\ state' = w.state
  /\ groups' = w.groups
  /\ named' = w.named
  /\ groupCount' = w.groupCount
  /\ created' = w.created

Raise(w, e) == [w EXCEPT !.err = e]
Did(w, id) == [w EXCEPT !.done = @ \cup {id}]

NoOp == [name |-> "none", err |-> "none", done |-> {}, how |-> ""]
NoConn == [list |-> <<>>, idx |-> 1, attempt |-> 0, max |-> 0, slept |-> 0,
           result |-> "none", before |-> <<>>]

\* __init__: no instances, no clients; security_group_ids is the caller's
\* list (of one or two groups that exist) or None; the provider may already
\* hold a group named IMPAQ_HPC_TM.
Init ==
  /\ instances = <<>>
  /\ ssh_clients = [i \in Ids |-> 0]
  /\ clients = <<>>
  /\ security_group_created = FALSE
  /\ instance_num \in 1..MaxInstances
  /\ state = [i \in Ids |-> "none"]
  /\ \E cfg \in {"none", "supplied", "supplied2", "named"} :
       /\ security_group_ids = CASE cfg = "supplied" -> Some(<<1>>)
                                  [] cfg = "supplied2" -> Some(<<1, 2>>)
                                  [] OTHER -> None
       /\ groups = CASE cfg = "none" -> {}
                      [] cfg = "supplied2" -> {1, 2}
                      [] OTHER -> {1}
       /\ named = IF cfg = "named" THEN 1 ELSE 0
       /\ groupCount = CASE cfg = "none" -> 0
                          [] cfg = "supplied2" -> 2
                          [] OTHER -> 1
  /\ created = {}
  /\ lastOp = NoOp
  /\ pc = "idle"
  /\ conn = NoConn

\* ------------------------------------------------------- the environment
\* What the provider does to an instance's state on each lifecycle call.
AfterTerminate(st) == IF st = "terminated" THEN "terminated" ELSE "shutting-down"
AfterStop(st) == IF st \in {"pending", "running"} THEN "stopping" ELSE st
AfterStart(st) == IF st = "stopped" THEN "pending" ELSE st

\* instance.stop() / instance.start() raise a ClientError
\* (IncorrectInstanceState) on an instance that cannot be stopped / started.
CanStop(st) == st \in {"running", "stopping", "stopped"}
CanStart(st) == st \in {"pending", "running", "stopped"}

\* The state a blocking waiter ends in, when it can be reached from st.
CanReach(st, target) ==
  \/ target = "running" /\ st \in {"pending", "running"}
  \/ target = "stopped" /\ st \in {"stopping", "stopped"}
  \/ target = "terminated" /\ st \in {"shutting-down", "terminated"}

\* The provider moves an instance through its transitional state by itself.
ProviderProgress(i) ==
  /\ state[i] \in {"pending", "stopping", "shutting-down"}
  /\ state' = [state EXCEPT ![i] = CASE @ = "pending" -> "running"
                                     [] @ = "stopping" -> "stopped"
                                     [] OTHER -> "terminated"]
  /\ UNCHANGED <<instances, ssh_clients, clients, security_group_ids,
                 security_group_created, instance_num, groups, named,
                 groupCount, created, lastOp, pc, conn>>

\* ------------------------------------------------------------- the loops
\* "for instance in list: Op(instance)", left at the first exception.
RECURSIVE ForEach(_, _, _, _)
ForEach(Op(_, _, _), w, list, k) ==
  IF k > Len(list) \/ w.err # "none" THEN w
  ELSE ForEach(Op, Op(w, list[k], k), list, k + 1)

\* ------------------------------------------------------ __parse_instances
\* The instances parameter of an operation: None, one bare instance, or a
\* list of instances.
ArgNone == [kind |-> "None", val |-> <<>>]
ArgBare(i) == [kind |-> "bare", val |-> <<i>>]
ArgList(s) == [kind |-> "list", val |-> s]

\* The list the operation loops over; a bare instance becomes [instance].
ParsedList(w, arg) == IF arg.kind = "None" THEN w.instances ELSE arg.val

\* TRUE when __parse_instances returns, FALSE when it raises TypeError.
ParseOk(w, arg) ==
  arg.kind = "None" \/ \A k \in 1..Len(arg.val) : arg.val[k] \in Range(w.instances)

\* ------------------------------------------------ close_instance_connections
\* client.close(); a missing key is a KeyError, caught (and printed unless
\* suppress_warning).
\* A close that fails on a client that is already closed.
CloseOneStrict(w, id, suppress_warning) ==
  IF w.ssh_clients[id] = 0 THEN w
  ELSE IF ~w.clients[w.ssh_clients[id]].open THEN Raise(w, "SSHException")
  ELSE [w EXCEPT !.clients[w.ssh_clients[id]].open = FALSE]

CloseOne(w, id, suppress_warning) ==
  IF w.ssh_clients[id] # 0
  THEN [w EXCEPT !.clients[w.ssh_clients[id]].open = FALSE]
  ELSE w

close_instance_connections(w, arg, suppress_warning) ==
  IF ~ParseOk(w, arg) THEN Raise(w, "TypeError")
  ELSE ForEach(LAMBDA x, id, k : CloseOne(x, id, suppress_warning),
               w, ParsedList(w, arg), 1)

\* ------------------------------------------------------ terminate_instances
\* instance.terminate(); fails: the provider makes this call raise.
TerminateOne(w, id, fails) ==
  IF fails THEN Raise(w, "ClientError")
  ELSE [w EXCEPT !.state[id] = AfterTerminate(@)]

\* instance.wait_until_<target>(): returns when the instance is in the target
\* state, raises WaiterError when it cannot get there.
WaitOne(w, id, target) ==
  IF CanReach(w.state[id], target) THEN [w EXCEPT !.state[id] = target]
  ELSE Raise(w, "WaiterError")

\* A stop / terminate that leaves the SSH connections open.
CloseAfterForgotten(w, list) == w

\* The last statement of terminate_instances and of stop_instances: the SSH
\* connections of the same instances are closed.
CloseAfter(w, list) == close_instance_connections(w, ArgList(list), TRUE)

terminate_instances(w, arg, wait_until_terminated, failAt) ==
  IF ~ParseOk(w, arg) THEN Raise(w, "TypeError")
  ELSE
    LET list == ParsedList(w, arg)
        w1 == ForEach(LAMBDA x, id, k : TerminateOne(x, id, k = failAt), w, list, 1)
        w2 == IF wait_until_terminated
              THEN ForEach(LAMBDA x, id, k : WaitOne(x, id, "terminated"), w1, list, 1)
              ELSE w1
    IN IF w2.err # "none" THEN w2 ELSE CloseAfter(w2, list)

\* ----------------------------------------------------------- stop_instances
StopOne(w, id, fails) ==
  IF fails \/ ~CanStop(w.state[id]) THEN Raise(w, "ClientError")
  ELSE [w EXCEPT !.state[id] = AfterStop(@)]

stop_instances(w, arg, wait_until_stopped, failAt) ==
  IF ~ParseOk(w, arg) THEN Raise(w, "TypeError")
  ELSE
    LET list == ParsedList(w, arg)
        w1 == ForEach(LAMBDA x, id, k : StopOne(x, id, k = failAt), w, list, 1)
        w2 == IF wait_until_stopped
              THEN ForEach(LAMBDA x, id, k : WaitOne(x, id, "stopped"), w1, list, 1)
              ELSE w1
    IN IF w2.err # "none" THEN w2 ELSE CloseAfter(w2, list)

\* ---------------------------------------------------------- start_instances
StartOne(w, id, fails) ==
  IF fails \/ ~CanStart(w.state[id]) THEN Raise(w, "ClientError")
  ELSE [w EXCEPT !.state[id] = AfterStart(@)]

start_instances(w, arg, wait_until_running, failAt) ==
  IF ~ParseOk(w, arg) THEN Raise(w, "TypeError")
  ELSE
    LET list == ParsedList(w, arg)
        w1 == ForEach(LAMBDA x, id, k : StartOne(x, id, k = failAt), w, list, 1)
    IN IF wait_until_running
       THEN ForEach(LAMBDA x, id, k : WaitOne(x, id, "running"), w1, list, 1)
       ELSE w1

\* ---------------------------------------------------- create_security_group
\* A create_security_group that takes the group it found for its own.
create_security_group_owning(w, fault) ==
  IF fault = "create" THEN Raise(w, "ClientError")
  ELSE IF w.named # 0
  THEN [w EXCEPT !.security_group_ids = Some(<<w.named>>), !.how = "adopted",
                 !.security_group_created = TRUE]
  ELSE
    LET g == w.groupCount + 1
        w1 == [w EXCEPT !.groups = @ \cup {g}, !.named = g, !.groupCount = g,
                        !.created = @ \cup {g}]
    IN IF fault = "authorize" THEN Raise(w1, "ClientError")
       ELSE [w1 EXCEPT !.security_group_ids = Some(<<g>>),
                       !.security_group_created = TRUE, !.how = "created"]

\* fault: the provider call that raises a ClientError other than
\* InvalidGroup.Duplicate ("create", "authorize"), or "none".
\* ec2.create_security_group raises InvalidGroup.Duplicate exactly when a group
\* named IMPAQ_HPC_TM exists; describe_security_groups then returns that group.
create_security_group(w, fault) ==
  IF fault = "create" THEN Raise(w, "ClientError")
  ELSE IF w.named # 0
  THEN [w EXCEPT !.security_group_ids = Some(<<w.named>>), !.how = "adopted"]
  ELSE
    LET g == w.groupCount + 1
        w1 == [w EXCEPT !.groups = @ \cup {g}, !.named = g, !.groupCount = g,
                        !.created = @ \cup {g}]
    IN IF fault = "authorize" THEN Raise(w1, "ClientError")
       ELSE [w1 EXCEPT !.security_group_ids = Some(<<g>>),
                       !.security_group_created = TRUE, !.how = "created"]

\* ---------------------------------------------------- delete_security_group
\* The provider refuses to delete a group that does not exist, and a group
\* that instances still use (fails: the provider's refusal, an input); the
\* ClientError is caught and printed.
\* A deletion whose failure is not caught.
DeleteOneRaising(w, g, fails) ==
  IF fails THEN Raise(w, "ClientError")
  ELSE [w EXCEPT !.groups = @ \ {g}, !.named = IF @ = g THEN 0 ELSE @]

DeleteOne(w, g, fails) ==
  IF g \in w.groups /\ ~fails
  THEN [w EXCEPT !.groups = @ \ {g}, !.named = IF @ = g THEN 0 ELSE @]
  ELSE w

\* Iterating over None raises a TypeError.
delete_security_group(w, failAt) ==
  IF IsNone(w.security_group_ids) THEN Raise(w, "TypeError_NoneType")
  ELSE ForEach(LAMBDA x, g, k : DeleteOne(x, g, k = failAt),
               w, Val(w.security_group_ids), 1)

\* ----------------------------------------------------------- load_instances
\* A load_instances that reads the attributes without waiting for Running.
LoadOneNoWait(w, id) == Did(w, id)

\* instance.wait_until_running(); instance.load()
LoadOne(w, id) ==
  LET w1 == WaitOne(w, id, "running")
  IN IF w1.err # "none" THEN w1 ELSE Did(w1, id)

load_instances(w) == ForEach(LAMBDA x, id, k : LoadOne(x, id), w, w.instances, 1)

\* --------------------------------------------------------- create_instances
\* The ids of the instances ec2.create_instances returns, in order.
NewIds(w) ==
  LET n == Cardinality({i \in Ids : w.state[i] # "none"})
  IN [k \in 1..w.instance_num |-> n + k]

\* ec2.create_instances raises a ClientError when a group of
\* SecurityGroupIds does not exist (or when fault = "run"); otherwise
\* self.instances becomes the list of the new instances.
RunInstances(w, fault) ==
  LET new == NewIds(w)
  IN IF fault = "run" \/ ~(Range(Val(w.security_group_ids)) \subseteq w.groups)
     THEN Raise(w, "ClientError")
     ELSE [w EXCEPT !.instances = new,
                    !.state = [i \in Ids |-> IF i \in Range(new)
                                             THEN "pending" ELSE @[i]]]

create_instances(w, wait_for_running, fault) ==
  LET w1 == IF IsNone(w.security_group_ids) THEN create_security_group(w, fault)
            ELSE w
      w2 == IF w1.err # "none" THEN w1 ELSE RunInstances(w1, fault)
  IN IF w2.err # "none" \/ ~wait_for_running THEN w2 ELSE load_instances(w2)

\* ------------------------------------------------------------------ cleanup
\* A cleanup that never waits for the instances to be terminated.
CleanupWaitNever(w) == FALSE

\* The wait flag cleanup passes to terminate_instances.
CleanupWait(w) == w.security_group_created

\* Line 68, and the test of line 70 that decides whether line 71 runs.
cleanup_terminate(w, failAt) == terminate_instances(w, ArgNone, CleanupWait(w), failAt)

\* A cleanup that deletes the security groups whoever made them.
CleanupDeletesAlways(w) == TRUE

CleanupDeletes(w) == w.security_group_created

\* Line 71.
cleanup_delete(w, failAt) == delete_security_group(w, failAt)

\* ------------------------------------------------------- remote operations
\* self.ssh_clients[instance.id] raises KeyError when the key is absent; a
\* client that was closed has no transport, so using it raises without
\* running anything (NotConnected stands for paramiko's error).
\* A remote operation that drops the client from ssh_clients when it is done.
UseClientForgets(w, id) ==
  IF w.ssh_clients[id] = 0 THEN Raise(w, "KeyError")
  ELSE IF ~w.clients[w.ssh_clients[id]].open THEN Raise(w, "NotConnected")
  ELSE [Did(w, id) EXCEPT !.ssh_clients[id] = 0]

UseClient(w, id) ==
  IF w.ssh_clients[id] = 0 THEN Raise(w, "KeyError")
  ELSE IF ~w.clients[w.ssh_clients[id]].open THEN Raise(w, "NotConnected")
  ELSE Did(w, id)

execute_command(w, arg) ==
  IF ~ParseOk(w, arg) THEN Raise(w, "TypeError")
  ELSE ForEach(LAMBDA x, id, k : UseClient(x, id), w, ParsedList(w, arg), 1)

upload_file_to_instance(w, arg) ==
  IF ~ParseOk(w, arg) THEN Raise(w, "TypeError")
  ELSE ForEach(LAMBDA x, id, k : UseClient(x, id), w, ParsedList(w, arg), 1)

\* Takes one instance and does not call __parse_instances.
download_file_from_instance(w, id) == UseClient(w, id)

download_file_from_url(w, arg) == execute_command(w, arg)

\* ----------------------------------------------------- connect_to_instances
RetryErrors == {"TimeoutError", "NoValidConnectionsError", "AuthenticationException"}
Outcomes == {"connected"} \cup RetryErrors

\* A retry loop that gives up one attempt early.
RetryOrRaiseEarly(connection_attempts, max_attempts) ==
  IF connection_attempts >= max_attempts - 1 THEN "raise" ELSE "retry"

\* The three except clauses: re-raise on the last attempt, else sleep and retry.
RetryOrRaise(connection_attempts, max_attempts) ==
  IF connection_attempts = max_attempts THEN "raise" ELSE "retry"

\* A loop that goes on with the next instance after the attempts on one
\* instance are exhausted.
AfterExhaustedGoOn(c) ==
  IF c.idx >= Len(c.list) THEN "returned" ELSE "connecting"

\* Where the program is after the attempts on one instance are exhausted:
\* the raise leaves both loops, connect_to_instances is over.
AfterExhausted(c) == "returned"

\* A connect that forgets to close the previous client of the instance.
TrackClientLeak(w, id) ==
  [w EXCEPT !.clients = Append(@, [id |-> id, open |-> TRUE]),
            !.ssh_clients[id] = Len(w.clients) + 1]

\* Lines 226-230: close the previous client of the instance, track the new one.
TrackClient(w, id) ==
  LET w1 == IF w.ssh_clients[id] # 0
            THEN [w EXCEPT !.clients[w.ssh_clients[id]].open = FALSE]
            ELSE w
  IN [w1 EXCEPT !.clients = Append(@, [id |-> id, open |-> TRUE]),
                !.ssh_clients[id] = Len(w.clients) + 1]

\* A failed attempt that closes the client the instance already had.
OnFailureCloses(w, id) ==
  IF w.ssh_clients[id] # 0
  THEN [w EXCEPT !.clients[w.ssh_clients[id]].open = FALSE]
  ELSE w

\* The except clauses (lines 232-254) print, sleep or re-raise: client.connect
\* raised before lines 226-230, and self.ssh_clients is as it was.
OnFailure(w, id) == w

\* The client tracked for instance i and whether it is open; conn.before is
\* this for every instance at the time connect_to_instances was called.
SessionOf(i) ==
  [client |-> ssh_clients[i],
   open |-> ssh_clients[i] # 0 /\ clients[ssh_clients[i]].open]

\* conn describes the latest connection attempt: it was attempt number
\* conn.attempt on the instance conn.list[conn.idx], it ended as conn.result
\* ("connected", "retry" after the sleep, or the exception raised), and
\* conn.slept is the time slept so far between the attempts on that instance.
\* The loop variables before the next attempt:
Advance(c) ==
  IF c.result \in {"none", "retry"} THEN c
  ELSE [c EXCEPT !.idx = @ + 1, !.attempt = 0, !.slept = 0, !.result = "none"]

\* No attempt is left: the instance loop is over, or range(1, max_attempts + 1)
\* is empty.
Finished(c) == Advance(c).idx > Len(c.list) \/ c.max = 0

\* ------------------------------------------------------------- operations
Known == {i \in Ids : state[i] # "none"}

RECURSIVE SeqsUpTo(_, _)
SeqsUpTo(S, n) ==
  IF n = 0 THEN {<<>>}
  ELSE LET shorter == SeqsUpTo(S, n - 1)
       IN shorter \cup {Append(s, x) : s \in {t \in shorter : Len(t) = n - 1}, x \in S}

\* Every value a caller can pass as the instances parameter.
Args ==
  {ArgNone} \cup {ArgBare(i) : i \in Known}
            \cup {ArgList(s) : s \in SeqsUpTo(Known, MaxSubsetLen)}

\* The positions of the loop at which the provider can make a call fail.
Faults(arg) == 0..Len(ParsedList(Cur, arg))

\* An operation that runs from call to return in one step.
Atomic(name, w) ==
  /\ pc = "idle"
  /\ Commit(w)
  /\ lastOp' = [name |-> name, err |-> w.err, done |-> w.done, how |-> w.how]
  /\ pc' = "returned"
  /\ UNCHANGED conn

\* The caller has the result of the operation and goes on.
Return ==
  /\ pc = "returned"
  /\ pc' = "idle"
  /\ lastOp' = NoOp
  /\ conn' = NoConn
  /\ UNCHANGED <<instances, ssh_clients, clients, security_group_ids,
                 security_group_created, instance_num, state, groups, named,
                 groupCount, created>>

CreateSecurityGroupWith(fault) ==
  /\ named # 0 \/ groupCount < MaxGroups \/ fault = "create"
  /\ Atomic("create_security_group", create_security_group(Cur, fault))

CreateSecurityGroup == \E fault \in {"none", "create", "authorize"} : CreateSecurityGroupWith(fault)

DeleteSecurityGroupWith(failAt) ==
  Atomic("delete_security_group", delete_security_group(Cur, failAt))

\* The positions of the loop over security_group_ids at which the provider
\* can refuse the deletion.
DeleteFaults == 0..(IF IsNone(security_group_ids) THEN 0 ELSE Len(Val(security_group_ids)))

DeleteSecurityGroup == \E failAt \in DeleteFaults : DeleteSecurityGroupWith(failAt)

CreateInstancesWith(wait, fault) ==
  /\ Cardinality(Known) + instance_num <= MaxInstances
  /\ ~IsNone(security_group_ids) \/ named # 0 \/ groupCount < MaxGroups
  /\ Atomic("create_instances", create_instances(Cur, wait, fault))

CreateInstances ==
  \E wait \in BOOLEAN, fault \in {"none", "create", "authorize", "run"} :
    CreateInstancesWith(wait, fault)

LoadInstances == Atomic("load_instances", load_instances(Cur))

TerminateInstancesWith(arg, wait, failAt) ==
  Atomic("terminate_instances", terminate_instances(Cur, arg, wait, failAt))

TerminateInstances ==
  \E arg \in Args, wait \in BOOLEAN :
    \E failAt \in Faults(arg) : TerminateInstancesWith(arg, wait, failAt)

StopInstancesWith(arg, wait, failAt) ==
  Atomic("stop_instances", stop_instances(Cur, arg, wait, failAt))

StopInstances ==
  \E arg \in Args, wait \in BOOLEAN :
    \E failAt \in Faults(arg) : StopInstancesWith(arg, wait, failAt)

StartInstancesWith(arg, wait, failAt) ==
  Atomic("start_instances", start_instances(Cur, arg, wait, failAt))

StartInstances ==
  \E arg \in Args, wait \in BOOLEAN :
    \E failAt \in Faults(arg) : StartInstancesWith(arg, wait, failAt)

CloseInstanceConnectionsWith(arg, suppress) ==
  Atomic("close_instance_connections", close_instance_connections(Cur, arg, suppress))

CloseInstanceConnections ==
  \E arg \in Args, suppress \in BOOLEAN : CloseInstanceConnectionsWith(arg, suppress)

ExecuteCommandWith(arg) == Atomic("execute_command", execute_command(Cur, arg))
ExecuteCommand == \E arg \in Args : ExecuteCommandWith(arg)

UploadFileToInstanceWith(arg) ==
  Atomic("upload_file_to_instance", upload_file_to_instance(Cur, arg))
UploadFileToInstance == \E arg \in Args : UploadFileToInstanceWith(arg)

DownloadFileFromInstanceWith(i) ==
  Atomic("download_file_from_instance", download_file_from_instance(Cur, i))
DownloadFileFromInstance == \E i \in Known : DownloadFileFromInstanceWith(i)

DownloadFileFromUrlWith(arg) ==
  Atomic("download_file_from_url", download_file_from_url(Cur, arg))
DownloadFileFromUrl == \E arg \in Args : DownloadFileFromUrlWith(arg)

\* connect_to_instances, from the call to the first connection attempt.
ConnectBeginWith(arg, max_attempts) ==
  LET ok == ParseOk(Cur, arg)
      c == [NoConn EXCEPT !.list = ParsedList(Cur, arg), !.max = max_attempts,
                          !.before = [i \in Ids |-> SessionOf(i)]]
  IN /\ pc = "idle"
     /\ Commit(Cur)
     /\ conn' = c
     /\ pc' = IF ok /\ ~Finished(c) THEN "connecting" ELSE "returned"
     /\ lastOp' = [name |-> "connect_to_instances",
                   err |-> IF ok THEN "none" ELSE "TypeError", done |-> {},
                   how |-> ""]

ConnectBegin ==
  \E arg \in Args, max_attempts \in 0..MaxAttempts : ConnectBeginWith(arg, max_attempts)

\* One pass through the body of the retry loop: client.connect and what
\* follows it (track the client and break, sleep and retry, or raise).
ConnectAttemptWith(outcome) ==
  LET c == [Advance(conn) EXCEPT !.attempt = @ + 1]
      id == c.list[c.idx]
      ended(r) == [c EXCEPT !.result = r]
  IN /\ pc = "connecting"
     /\ IF outcome = "connected"
        THEN /\ Len(clients) < MaxClients
             /\ Commit(TrackClient(Cur, id))
             /\ conn' = ended("connected")
             /\ pc' = IF Finished(conn') THEN "returned" ELSE "connecting"
             /\ UNCHANGED lastOp
        ELSE IF RetryOrRaise(c.attempt, c.max) = "retry"
        THEN /\ Commit(OnFailure(Cur, id))
             /\ conn' = [ended("retry") EXCEPT !.slept = @ + RetryDelay]
             /\ UNCHANGED <<pc, lastOp>>
        ELSE /\ Commit(OnFailure(Cur, id))
             /\ conn' = ended(outcome)
             /\ pc' = AfterExhausted(conn')
             /\ lastOp' = [lastOp EXCEPT !.err = outcome]

ConnectAttempt == \E outcome \in Outcomes : ConnectAttemptWith(outcome)

\* The process exits: atexit runs cleanup. First line 68 ...
ExitTerminateWith(failAt) ==
  LET w == cleanup_terminate(Cur, failAt)
  IN /\ pc \in {"idle", "returned", "connecting"}
     /\ Commit(w)
     /\ lastOp' = [name |-> "cleanup", err |-> w.err, done |-> {}, how |-> ""]
     /\ pc' = IF w.err = "none" /\ CleanupDeletes(w) THEN "exiting" ELSE "exited"
     /\ UNCHANGED conn

ExitTerminate == \E failAt \in 0..Len(instances) : ExitTerminateWith(failAt)

\* ... then line 71, when the manager created its security group.
ExitDeleteWith(failAt) ==
  LET w == cleanup_delete(Cur, failAt)
  IN /\ pc = "exiting"
     /\ Commit(w)
     /\ lastOp' = [name |-> "cleanup", err |-> w.err, done |-> {}, how |-> ""]
     /\ pc' = "exited"
     /\ UNCHANGED conn

ExitDelete == \E failAt \in DeleteFaults : ExitDeleteWith(failAt)

Next ==
  \/ CreateSecurityGroup
  \/ DeleteSecurityGroup
  \/ CreateInstances
  \/ LoadInstances
  \/ TerminateInstances
  \/ StopInstances
  \/ StartInstances
  \/ CloseInstanceConnections
  \/ ExecuteCommand
  \/ UploadFileToInstance
  \/ DownloadFileFromInstance
  \/ DownloadFileFromUrl
  \/ ConnectBegin
  \/ ConnectAttempt
  \/ Return
  \/ ExitTerminate
  \/ ExitDelete
  \/ \E i \in Ids : ProviderProgress(i)

\* Every operation of the manager, in any order.
Spec == Init /\ [][Next]_vars

\* A caller that creates instances and opens and closes SSH connections.
NextConnect ==
  \/ CreateInstances
  \/ ConnectBegin
  \/ ConnectAttempt
  \/ CloseInstanceConnections
  \/ Return

SpecConnect == Init /\ [][NextConnect]_vars

\* A caller that creates instances, connects to them, works on them through
\* the connections, and stops or terminates them.
NextSession ==
  \/ CreateInstances
  \/ ConnectBegin
  \/ ConnectAttempt
  \/ CloseInstanceConnections
  \/ TerminateInstances
  \/ StopInstances
  \/ StartInstances
  \/ ExecuteCommand
  \/ UploadFileToInstance
  \/ DownloadFileFromInstance
  \/ DownloadFileFromUrl
  \/ Return

SpecSession == Init /\ [][NextSession]_vars

\* A caller that creates instances, connects to them, and stops or terminates
\* them while the connections are open.
NextShutdown ==
  \/ CreateInstances
  \/ ConnectBegin
  \/ ConnectAttempt
  \/ TerminateInstances
  \/ StopInstances
  \/ Return

SpecShutdown == Init /\ [][NextShutdown]_vars

\* A caller that connects to its instances and closes the connections, and
\* runs every operation that is not about connections in between.
NextFrame ==
  \/ CreateSecurityGroup
  \/ DeleteSecurityGroup
  \/ CreateInstances
  \/ LoadInstances
  \/ StartInstances
  \/ ConnectBegin
  \/ ConnectAttempt
  \/ CloseInstanceConnections
  \/ ExecuteCommand
  \/ UploadFileToInstance
  \/ DownloadFileFromInstance
  \/ DownloadFileFromUrl
  \/ Return

SpecFrame == Init /\ [][NextFrame]_vars

\* A caller that manages the security group and the instances' lifecycle,
\* and the exit of the process.
NextFleet ==
  \/ CreateSecurityGroup
  \/ DeleteSecurityGroup
  \/ CreateInstances
  \/ LoadInstances
  \/ TerminateInstances
  \/ StopInstances
  \/ StartInstances
  \/ Return
  \/ ExitTerminate
  \/ ExitDelete
  \/ \E i \in Ids : ProviderProgress(i)

SpecFleet == Init /\ [][NextFleet]_vars

\* =================================================================== claims
Tracked == Range(instances)
TerminateIssued(i) == state[i] \in {"shutting-down", "terminated"}
CleanupOver == pc = "exited" /\ lastOp.name = "cleanup" /\ lastOp.err = "none"

\* C1: when the process has exited and cleanup ran to its end, terminate has
\* been issued to every instance the manager created.
C1_NoOrphanInstance == CleanupOver => \A i \in Known : TerminateIssued(i)

\* C9: cleanup requests the deletion of the security group only when the
\* manager owns it, and then only after every tracked instance was terminated
\* and has reached "terminated"; a manager that owns no group issues terminate
\* to every tracked instance without waiting and deletes nothing.
C9_Step ==
  /\ pc' = "exiting" =>
       /\ security_group_created'
       /\ \A i \in Range(instances') : state'[i] = "terminated"
  /\ \A failAt \in 0..Len(instances) :
       ExitTerminateWith(failAt) /\ ~security_group_created /\ lastOp'.err = "none" =>
         /\ \A i \in Tracked : state'[i] = AfterTerminate(state[i])
         /\ pc' = "exited"
  /\ groups' # groups /\ pc' = "exited" => pc = "exiting"

C9_CleanupOrder == [][C9_Step]_vars

\* C9 happens: cleanup is about to delete the group of a manager with instances.
C9_Witness == pc = "exiting" /\ instances # <<>>

\* C8: a create_security_group call that creates the group records its id
\* and sets security_group_created; a call that follows it and finds the
\* group (InvalidGroup.Duplicate) resolves to the same id and leaves the flag
\* as the creating call set it; only a creating call sets the flag.
C8_Step ==
  /\ \A fault \in {"none", "create", "authorize"} :
       CreateSecurityGroupWith(fault) /\ lastOp'.err = "none" =>
         /\ lastOp'.how = "created" =>
              /\ security_group_created'
              /\ security_group_ids' = Some(<<named'>>)
         /\ lastOp'.how = "adopted" =>
              /\ security_group_created' = security_group_created
              /\ security_group_created /\ security_group_ids = Some(<<named>>) =>
                   security_group_ids' = security_group_ids
  /\ ~security_group_created /\ security_group_created' => lastOp'.how = "created"

C8_SameGroupTwice == [][C8_Step]_vars

\* C8 happens: the manager that created the group called again and found it.
C8_Witness ==
  /\ lastOp.name = "create_security_group" /\ lastOp.how = "adopted"
  /\ security_group_created /\ security_group_ids = Some(<<named>>)

\* The call of connect_to_instances ended with the attempts on the instance
\* conn.list[conn.idx] exhausted.
Exhausted == conn.result \in RetryErrors

C4_Inv ==
  /\ conn.result = "connected" =>
       /\ conn.attempt \in 1..conn.max
       /\ conn.slept = (conn.attempt - 1) * RetryDelay
  /\ Exhausted =>
       /\ conn.attempt = conn.max
       /\ conn.slept = (conn.max - 1) * RetryDelay
       /\ lastOp.err = conn.result
  /\ conn.result = "retry" =>
       /\ conn.attempt < conn.max
       /\ conn.slept = conn.attempt * RetryDelay

C4_Step ==
  pc = "connecting" /\ conn' # conn =>
    IF conn.result = "connected"
    THEN conn'.idx = conn.idx + 1 /\ conn'.attempt = 1
    ELSE conn'.idx = conn.idx /\ conn'.attempt = conn.attempt + 1

C4_RetryBound == [][C4_Inv' /\ C4_Step]_vars

\* C4 happens: every one of several attempts failed.
C4_Witness == Exhausted /\ conn.max >= 2

\* The open clients connected to instance i.
OpenClients(i) == {h \in 1..Len(clients) : clients[h].id = i /\ clients[h].open}

\* C5: an instance never has two open clients, the open client is the one
\* ssh_clients tracks, and after a successful connect the tracked client is
\* the new one (so the client it replaced is closed).
C5_OneSession ==
  /\ \A i \in Ids : OpenClients(i) \subseteq {ssh_clients[i]}
  /\ conn.result = "connected" =>
       /\ ssh_clients[conn.list[conn.idx]] = Len(clients)
       /\ OpenClients(conn.list[conn.idx]) = {Len(clients)}

\* C5 happens: a connect succeeded on an instance that had a client already.
C5_Witness ==
  /\ conn.result = "connected"
  /\ \E h \in 1..(Len(clients) - 1) : clients[h].id = conn.list[conn.idx]

\* The list an operation called with arg loops over, in the current state.
ListOf(arg) == ParsedList(Cur, arg)

\* C2: after terminate_instances(S) returns, ssh_clients has no entry for an
\* instance of S.
C2_Step ==
  lastOp'.name = "terminate_instances" =>
  \A arg \in Args, wait \in BOOLEAN :
    \A failAt \in Faults(arg) :
      TerminateInstancesWith(arg, wait, failAt) /\ lastOp'.err = "none" =>
        \A k \in 1..Len(ListOf(arg)) : ssh_clients'[ListOf(arg)[k]] = 0

C2_NoEntryAfterTerminate == [][C2_Step]_vars

\* Instance i has no live session: no client is tracked for it, or the
\* tracked client is closed.
NoLive(i) == ssh_clients[i] = 0 \/ ~clients[ssh_clients[i]].open

\* World w holds no live session for instance i.
NoLiveIn(w, i) == w.ssh_clients[i] = 0 \/ ~w.clients[w.ssh_clients[i]].open

\* C10: stop_instances(S) and terminate_instances(S) that return normally
\* leave every client tracked for an instance of S closed, with either value
\* of the wait flag, and an instance of S without a client raises nothing
\* (the call never ends in a KeyError). Stated of every call the caller can
\* make in every state in which the manager is idle.
C10_SessionsClosed ==
  pc = "idle" =>
    \A arg \in Args, wait \in BOOLEAN :
      \A failAt \in Faults(arg) :
        \A w \in {stop_instances(Cur, arg, wait, failAt),
                  terminate_instances(Cur, arg, wait, failAt)} :
          /\ w.err # "KeyError"
          /\ w.err = "none" =>
               \A k \in 1..Len(ListOf(arg)) : NoLiveIn(w, ListOf(arg)[k])

\* C10 happens: terminate_instances returned normally; one tracked instance
\* had a client, now closed, and another had none.
C10_Witness ==
  /\ pc = "returned" /\ lastOp.name = "terminate_instances" /\ lastOp.err = "none"
  /\ \A i \in Tracked : TerminateIssued(i)
  /\ \E i, j \in Tracked : ssh_clients[i] # 0 /\ NoLive(i) /\ ssh_clients[j] = 0

\* The operation ended in the TypeError of __parse_instances and did nothing.
Rejected ==
  /\ lastOp'.err = "TypeError" /\ lastOp'.done = {}
  /\ UNCHANGED <<instances, ssh_clients, clients, security_group_ids,
                 security_group_created, state, groups, named, groupCount,
                 created>>

\* C6: every per-instance operation called with an instance that is not in
\* self.instances ends in the TypeError of __parse_instances and does nothing.
C6_Step ==
  pc = "idle" =>
  /\ \A arg \in {a \in Args : ~ParseOk(Cur, a)} :
       \/ \E m \in 0..MaxAttempts : ConnectBeginWith(arg, m)
       \/ \E b \in BOOLEAN : CloseInstanceConnectionsWith(arg, b)
       \/ \E b \in BOOLEAN, failAt \in Faults(arg) :
            \/ StartInstancesWith(arg, b, failAt)
            \/ StopInstancesWith(arg, b, failAt)
            \/ TerminateInstancesWith(arg, b, failAt)
       \/ ExecuteCommandWith(arg)
       \/ UploadFileToInstanceWith(arg)
       \/ DownloadFileFromUrlWith(arg)
       => Rejected
  /\ \A i \in Known \ Tracked : DownloadFileFromInstanceWith(i) => Rejected

C6_UnknownInstanceRejected == [][C6_Step]_vars

\* C7: execute_command, upload_file_to_instance and download_file_from_instance
\* on a tracked instance without a live session end in a KeyError and run
\* nothing on that instance.
C7_Step ==
  pc = "idle" =>
  /\ \A arg \in {a \in Args : ParseOk(Cur, a)} :
       /\ \E k \in 1..Len(ListOf(arg)) : NoLive(ListOf(arg)[k])
       /\ ExecuteCommandWith(arg) \/ UploadFileToInstanceWith(arg)
       => /\ lastOp'.err = "KeyError"
          /\ \A k \in 1..Len(ListOf(arg)) :
               NoLive(ListOf(arg)[k]) => ListOf(arg)[k] \notin lastOp'.done
  /\ \A i \in Tracked :
       NoLive(i) /\ DownloadFileFromInstanceWith(i) =>
         lastOp'.err = "KeyError" /\ i \notin lastOp'.done

C7_NoSessionIsKeyError == [][C7_Step]_vars

\* C11: create_instances that returns normally leaves self.instances as
\* exactly the instance_num instances this call created (none of them existed
\* before, none was tracked before); with wait_for_running every one of them
\* is Running and has had its attributes loaded, without it they are Pending
\* and nothing was loaded.
C11_Step ==
  lastOp'.name = "create_instances" =>
    \A wait \in BOOLEAN, fault \in {"none", "create", "authorize", "run"} :
      CreateInstancesWith(wait, fault) /\ lastOp'.err = "none" =>
        /\ Len(instances') = instance_num
        /\ Cardinality(Range(instances')) = instance_num
        /\ \A i \in Range(instances') : state[i] = "none" /\ i \notin Range(instances)
        /\ wait => \A i \in Range(instances') :
                     state'[i] = "running" /\ i \in lastOp'.done
        /\ ~wait => \A i \in Range(instances') :
                      state'[i] = "pending" /\ i \notin lastOp'.done

C11_CreatedAreTracked == [][C11_Step]_vars

\* C11 happens: create_instances(wait_for_running=True) returned while an
\* instance of an earlier call exists; the tracked instances are the new ones,
\* Running and loaded.
C11_Witness ==
  /\ pc = "returned" /\ lastOp.name = "create_instances" /\ lastOp.err = "none"
  /\ Known \ Tracked # {}
  /\ lastOp.done = Tracked
  /\ \A i \in Tracked : state[i] = "running"

\* C12: close_instance_connections(S, suppress_warning=True) on tracked
\* instances raises nothing, and the same call made again on the state it
\* left raises nothing and changes neither ssh_clients nor the open / closed
\* status of any client.
C12_Step ==
  lastOp'.name = "close_instance_connections" =>
    \A arg \in Args :
      CloseInstanceConnectionsWith(arg, TRUE) /\ ParseOk(Cur, arg) =>
        /\ lastOp'.err = "none"
        /\ LET again == close_instance_connections(Cur', arg, TRUE)
           IN /\ again.err = "none"
              /\ again.ssh_clients = ssh_clients'
              /\ again.clients = clients'

C12_CloseTwice == [][C12_Step]_vars

\* C12 happens: close_instance_connections returned normally over one
\* instance whose client it closed and one instance that has no client.
C12_Witness ==
  /\ pc = "returned" /\ lastOp.name = "close_instance_connections"
  /\ lastOp.err = "none"
  /\ \E i, j \in Tracked :
       /\ ssh_clients[i] # 0 /\ ~clients[ssh_clients[i]].open
       /\ ssh_clients[j] = 0

\* C13: a create_security_group that finds a group of the name IMPAQ_HPC_TM
\* returns normally with that group's id as its security_group_ids, creates
\* no group and does not touch security_group_created, which is FALSE when the
\* group is not one this manager created; any other failure of the provider
\* is raised with security_group_ids and security_group_created unchanged;
\* and cleanup deletes no group that this manager did not create.
C13_Step ==
  /\ lastOp'.name = "create_security_group" =>
       \A fault \in {"none", "create", "authorize"} :
         CreateSecurityGroupWith(fault) =>
           /\ fault # "create" /\ named # 0 =>
                /\ lastOp'.err = "none"
                /\ security_group_ids' = Some(<<named>>)
                /\ groups' = groups
                /\ security_group_created' = security_group_created
                /\ named \notin created => ~security_group_created'
           /\ lastOp'.err # "none" =>
                /\ lastOp'.err = "ClientError"
                /\ security_group_ids' = security_group_ids
                /\ security_group_created' = security_group_created
  /\ lastOp'.name = "cleanup" => (groups \ groups') \subseteq created

C13_DuplicateAdopts == [][C13_Step]_vars

\* C13 happens: the process has exited after the manager adopted a group of
\* the name that it had not created; the group is still there.
C13_Witness ==
  /\ pc = "exited" /\ lastOp.name = "cleanup"
  /\ named # 0 /\ named \notin created /\ named \in groups
  /\ security_group_ids = Some(<<named>>)

\* C14: security_group_created is TRUE only when create_security_group
\* created a group for this manager, and a step of the manager removes a
\* group from the provider only while security_group_created is TRUE, and
\* then only a group this manager created.
C14_Step ==
  /\ security_group_created' => created' # {}
  /\ groups \ groups' # {} =>
       security_group_created /\ (groups \ groups') \subseteq created

C14_OnlyOwnerDeletes == [][C14_Step]_vars

\* C15: every group that create_security_group created for this manager and
\* that still exists is among security_group_ids, with security_group_created
\* TRUE.
C15_NoOrphanGroup ==
  \A g \in created \cap groups :
    /\ security_group_created
    /\ ~IsNone(security_group_ids)
    /\ g \in Range(Val(security_group_ids))

\* C16: when cleanup is over it ended without an exception, terminate was
\* issued to every tracked instance, and the deletion of the security group
\* was gone through when the manager owns it, whatever call the provider made
\* fail on the way.
C16_CleanupNeverRaises ==
  pc = "exited" /\ lastOp.name = "cleanup" =>
    /\ lastOp.err = "none"
    /\ \A i \in Tracked : TerminateIssued(i)

\* C17: delete_security_group on a manager that has security_group_ids
\* returns normally whichever deletion the provider refuses, and every id
\* other than the refused one, those after it included, is deleted.
C17_Step ==
  lastOp'.name = "delete_security_group" =>
    \A failAt \in DeleteFaults :
      DeleteSecurityGroupWith(failAt) /\ ~IsNone(security_group_ids) =>
        /\ lastOp'.err = "none"
        /\ \A k \in 1..Len(Val(security_group_ids)) :
             k # failAt => Val(security_group_ids)[k] \notin groups'

C17_DeleteBestEffort == [][C17_Step]_vars

\* C17 happens: delete_security_group returned normally; the deletion of the
\* first of two ids was refused and the second id was deleted after it.
C17_Witness ==
  /\ pc = "returned" /\ lastOp.name = "delete_security_group"
  /\ lastOp.err = "none"
  /\ ~IsNone(security_group_ids) /\ Len(Val(security_group_ids)) = 2
  /\ Val(security_group_ids)[1] \in groups
  /\ Val(security_group_ids)[2] \notin groups

\* The operations that are neither connect_to_instances nor close a session.
NotAboutSessions ==
  {"create_instances", "load_instances", "start_instances", "execute_command",
   "upload_file_to_instance", "download_file_from_instance",
   "download_file_from_url", "create_security_group", "delete_security_group"}

\* C18: a step of an operation that is neither connect_to_instances nor a
\* session-closing operation leaves ssh_clients (its keys and the client of
\* each key) and the open / closed status of every client unchanged, however
\* the operation ends.
C18_Step ==
  lastOp'.name \in NotAboutSessions =>
    ssh_clients' = ssh_clients /\ clients' = clients

C18_SessionsFrame == [][C18_Step]_vars

\* C18 happens: create_instances returned and replaced the tracked instances
\* while an open client to an instance of the earlier call is in ssh_clients.
C18_Witness ==
  /\ pc = "returned" /\ lastOp.name = "create_instances" /\ lastOp.err = "none"
  /\ \E i \in Known \ Tracked : ssh_clients[i] # 0 /\ clients[ssh_clients[i]].open

\* C19: every key of ssh_clients is a tracked instance, and every open client
\* is connected to a tracked instance.
C19_SessionsOfTracked ==
  /\ \A i \in Ids : ssh_clients[i] # 0 => i \in Tracked
  /\ \A h \in 1..Len(clients) : clients[h].open => clients[h].id \in Tracked

\* C20: when connect_to_instances has raised after exhausting its attempts on
\* an instance, every instance that was not reached before the failing one
\* (the failing one and those after it included) has the client it had when
\* the call began, open if it was open, and every instance reached before it
\* has a new, open client.
C20_FailureKeepsSessions ==
  Exhausted /\ pc = "returned" =>
    LET reached == {conn.list[k] : k \in 1..(conn.idx - 1)}
    IN /\ \A i \in Ids \ reached : SessionOf(i) = conn.before[i]
       /\ \A i \in reached :
            ssh_clients[i] # conn.before[i].client /\ SessionOf(i).open

\* C20 happens: the call raised on the second instance of its list, which had
\* an open client before the call, after it connected to the first.
C20_Witness ==
  /\ Exhausted /\ pc = "returned"
  /\ conn.idx = 2 /\ conn.list[1] # conn.list[2]
  /\ conn.before[conn.list[2]].open

====
